---- MODULE Spec2Model ----
(***************************************************************************)
(* A model of the python-for-devops exercise scripts:                      *)
(*   day-03/output/api_data_fetcher.py   the stock fetcher                 *)
(*   day-02/practice/api_data_fetcher.py the user fetcher                  *)
(*   day-04/log_analyzer.py              the log analyzer                  *)
(* One script runs at a time.  The network, the clock, the keyboard and    *)
(* the disk are the environment: each call into them draws its outcome     *)
(* from a small set.                                                       *)
(***************************************************************************)
EXTENDS Integers, Sequences, FiniteSets, TLC

VARIABLES
    program,        \* which script is running ("none" before any is started)
    pc,             \* the running script's position
    exitStatus,     \* the process exit status (NoExit while it runs)
    stdout,         \* what the run has printed, in order
    build,          \* which requests library the interpreter imports
    clock,          \* the last reading of datetime.now(), in ticks
    dirs,           \* the directories that exist
    writable,       \* the directories the process may create entries in
    files,          \* the files that exist: filename -> tokens written
    runs,           \* how many stock-fetcher runs have been started
    api_key,        \* day-03 main: api_key
    stock_symbol,   \* day-03 main: stock_symbol
    filename,       \* day-03 main: filename
    response,       \* what requests.get gave (day-03 and day-02)
    stock_data,     \* day-03 main: stock_data (None after a failed fetch)
    httpCalls,      \* requests.get calls of this run
    openCalls,      \* open(filename, "w") calls of this run
    stages,         \* the pipeline stages this run has entered, in order
    fsBefore,       \* the disk as it was when save_data_to_file was entered
    saveRet,        \* what save_data_to_file returned (NoRet before)
    saved,          \* one entry per save_data_to_file call that returned True
    uncaught,       \* the exception that ended the process ("" when none did)
    users,          \* day-02 main: users
    processed_data, \* day-02 main: processed_data
    appLog,         \* day-04: the file app.log
    log_lines,      \* day-04 main: log_lines
    lineNo,         \* day-04 analyze_logs: the line the loop is at
    log_counts,     \* day-04 analyze_logs: log_counts
    log_details,    \* day-04 analyze_logs: log_details
    total_lines     \* day-04 analyze_logs: total_lines

d3vars == << runs, api_key, stock_symbol, filename, stock_data, httpCalls, openCalls,
             stages, fsBefore, saveRet, saved >>
d2vars == << uncaught, users, processed_data >>
d4vars == << appLog, log_lines, lineNo, log_counts, log_details, total_lines >>

vars == << program, pc, exitStatus, stdout, build, clock, dirs, writable, files,
           response, d3vars, d2vars, d4vars >>

----------------------------------------------------------------------------
(* Bounds of the model *)

MaxRuns == 2
MaxClock == 2
TicksPerSecond == 2
MaxUsers == 2
MaxLines == 2
MaxTokens == 3

----------------------------------------------------------------------------
(* Values *)

None == [kind |-> "None", keys |-> {}, rev |-> 0]
NoExit == -1
NoRet == "no-return"
\* A returned True or False, as saveRet records it.
Returned(b) == IF b THEN "True" ELSE "False"
NoResponse == [raised |-> "", status |-> 0, json |-> FALSE, value |-> None]
NoFilename == [dir |-> <<>>, stem |-> "", symbol |-> <<>>, stamp |-> 0]

Msg(text, arg) == [text |-> text, arg |-> arg]

\* str.strip(): leading and trailing whitespace removed.
IsSpace(c) == c \in {" ", "\n"}

RECURSIVE LStrip(_)
LStrip(s) == IF s # <<>> /\ IsSpace(Head(s)) THEN LStrip(Tail(s)) ELSE s

RECURSIVE RStrip(_)
RStrip(s) ==
    IF s # <<>> /\ IsSpace(s[Len(s)]) THEN RStrip(SubSeq(s, 1, Len(s) - 1)) ELSE s

Strip(s) == RStrip(LStrip(s))

----------------------------------------------------------------------------
(* day-03: the validators *)

UpperLetters == {"A", "B", "I", "M"}
LowerLetters == {"b", "i", "m"}

IsAlpha(s) == s # <<>> /\ \A i \in 1..Len(s) : s[i] \in UpperLetters \cup LowerLetters

IsUpper(s) ==
    /\ \E i \in 1..Len(s) : s[i] \in UpperLetters
    /\ \A i \in 1..Len(s) : s[i] \notin LowerLetters

PLACEHOLDER_KEY == <<"YOUR_API_KEY">>
DEMO_KEY == <<"demo">>
DEFAULT_SYMBOL == <<"I", "B", "M">>

validate_api_key(key) == ~(key = <<>> \/ key = PLACEHOLDER_KEY)

validate_stock_symbol(symbol) ==
    /\ symbol # <<>>
    /\ 1 <= Len(symbol) /\ Len(symbol) <= 5
    /\ IsAlpha(symbol)
    /\ IsUpper(symbol)

\* `validator and not validator(user_input)`: no validator accepts anything.
Accepts(validator, s) ==
    IF validator = "validate_stock_symbol" THEN validate_stock_symbol(s) ELSE TRUE

\* What the keyboard can give one input() call.
KeyLines == { <<>>, <<" ">>, PLACEHOLDER_KEY }
SymbolLines == { <<>>, <<"A">>, <<" ", "A", " ">>, <<"i", "b", "m">>, <<"A", "1">>,
                 <<"A", "B", "A", "B", "A", "B">> }
KeyboardEvents == {"line", "KeyboardInterrupt", "EOFError"}

\* One pass of get_user_input's loop on one keyboard event: the value it
\* returns, the prompt repeated, or the process exit it makes.
get_user_input(event, line, default, validator) ==
    LET stripped == Strip(line)
        user_input == IF default # <<>> /\ stripped = <<>> THEN default ELSE stripped
    IN  IF event = "KeyboardInterrupt"
            THEN [kind |-> "exit", status |-> 0, value |-> <<>>,
                  out |-> <<Msg("Operation cancelled by user", <<>>)>>]
        ELSE IF event = "EOFError"
            THEN [kind |-> "exit", status |-> 1, value |-> <<>>,
                  out |-> <<Msg("Unexpected end of input", <<>>)>>]
        ELSE IF user_input = <<>>
            THEN [kind |-> "again", status |-> NoExit, value |-> <<>>,
                  out |-> <<Msg("Input cannot be empty. Please try again.", <<>>)>>]
        ELSE IF ~Accepts(validator, user_input)
            THEN [kind |-> "again", status |-> NoExit, value |-> <<>>,
                  out |-> <<Msg("Invalid input format. Please try again.", <<>>)>>]
        ELSE [kind |-> "value", status |-> NoExit, value |-> user_input, out |-> <<>>]

----------------------------------------------------------------------------
(* Exceptions and except chains *)

\* The classes an exception is an instance of (itself and its bases), as the
\* requests and json libraries declare them.
Ancestors(exc) ==
    CASE exc = "requests.Timeout" ->
            {"requests.Timeout", "requests.RequestException", "OSError", "Exception"}
      [] exc = "requests.ConnectionError" ->
            {"requests.ConnectionError", "requests.RequestException", "OSError", "Exception"}
      [] exc = "requests.HTTPError" ->
            {"requests.HTTPError", "requests.RequestException", "OSError", "Exception"}
      [] exc = "requests.TooManyRedirects" ->
            {"requests.TooManyRedirects", "requests.RequestException", "OSError", "Exception"}
      [] exc = "requests.JSONDecodeError" ->
            {"requests.JSONDecodeError", "requests.RequestException", "OSError",
             "json.JSONDecodeError", "ValueError", "Exception"}
      [] exc = "json.JSONDecodeError" -> {"json.JSONDecodeError", "ValueError", "Exception"}
      [] exc = "simplejson.JSONDecodeError" ->
            {"simplejson.JSONDecodeError", "ValueError", "Exception"}
      [] exc = "FileNotFoundError" -> {"FileNotFoundError", "OSError", "Exception"}
      [] exc = "PermissionError" -> {"PermissionError", "OSError", "Exception"}
      [] exc = "IsADirectoryError" -> {"IsADirectoryError", "OSError", "Exception"}
      [] exc = "OSError" -> {"OSError", "Exception"}
      [] OTHER -> {exc, "Exception"}

\* The first clause of an except chain that catches exc (0: none does).
RECURSIVE FirstHandler(_, _, _)
FirstHandler(exc, chain, i) ==
    IF i > Len(chain) THEN 0
    ELSE IF chain[i].cls \in Ancestors(exc) THEN i
    ELSE FirstHandler(exc, chain, i + 1)

Catch(exc, chain) == FirstHandler(exc, chain, 1)

\* The requests builds an interpreter may import: response.json() raises
\* requests.JSONDecodeError from 2.27 on, json.JSONDecodeError before, and
\* simplejson's error when an older requests finds simplejson installed.
RequestsBuilds == {"requests>=2.27", "requests<2.27", "requests<2.27+simplejson"}

JsonErrorOf(b) ==
    CASE b = "requests>=2.27" -> "requests.JSONDecodeError"
      [] b = "requests<2.27" -> "json.JSONDecodeError"
      [] OTHER -> "simplejson.JSONDecodeError"

----------------------------------------------------------------------------
(* The HTTP responses the network can give *)

ApiKeys == {"Error Message", "Note", "Meta Data", "Time Series (Daily)"}
REQUIRED_KEY == "Time Series (Daily)"
Revisions == {1, 2}

\* Parsed JSON values: an object or an array with these keys (elements), whose
\* contents are revision rev of the server's data; or a number.
JsonValues ==
    [kind : {"dict", "list"}, keys : SUBSET ApiKeys, rev : Revisions]
        \cup {[kind |-> "number", keys |-> {}, rev |-> 1]}

\* An object json.dump cannot serialise (a caller of save_data_to_file may pass one).
Unserialisable == [kind |-> "set", keys |-> {REQUIRED_KEY}, rev |-> 1]

NetworkErrors == {"requests.Timeout", "requests.ConnectionError", "requests.TooManyRedirects"}

HttpResponses ==
    {[raised |-> e, status |-> 0, json |-> FALSE, value |-> None] : e \in NetworkErrors}
    \cup {[raised |-> "", status |-> s, json |-> FALSE, value |-> None] : s \in {200, 404, 500}}
    \cup {[raised |-> "", status |-> 200, json |-> TRUE, value |-> v] : v \in JsonValues}

\* `key in data`: membership for objects and arrays, TypeError for a number.
Contains(data, key) == key \in data.keys
InRaises(data) == data.kind \notin {"dict", "list"}
\* data[key]: the value for an object, TypeError for an array indexed by a string.
SubscriptRaises(data) == data.kind # "dict"
\* bool(data)
Truthy(data) == data.kind # "None" /\ (data.kind \in {"dict", "list"} => data.keys # {})

----------------------------------------------------------------------------
(* day-03: fetch_stock_data *)

FetchHandlers ==
    << [cls |-> "requests.Timeout", text |-> "Error: Request timed out after 10 seconds"],
       [cls |-> "requests.ConnectionError", text |-> "Error: Unable to connect to API"],
       [cls |-> "requests.HTTPError", text |-> "HTTP Error"],
       [cls |-> "requests.RequestException", text |-> "Network error"],
       [cls |-> "json.JSONDecodeError", text |-> "Error: Invalid JSON response from API"],
       [cls |-> "Exception", text |-> "Unexpected error"] >>

\* What the try body raises before the shape checks ("" when it raises nothing):
\* requests.get, raise_for_status, response.json.
FetchRaises(resp, b) ==
    IF resp.raised # "" THEN resp.raised
    ELSE IF resp.status >= 400 THEN "requests.HTTPError"
    ELSE IF ~resp.json THEN JsonErrorOf(b)
    ELSE ""

\* ShapeCheck as a slip would have it: the rate-limit check left out.
ShapeCheck_NoRateLimitCheck(data, symbol) ==
    IF InRaises(data) THEN Msg("Unexpected error", <<"TypeError">>)
    ELSE IF Contains(data, "Error Message")
        THEN Msg("API Error: Invalid stock symbol", symbol)
    ELSE IF ~Contains(data, REQUIRED_KEY)
        THEN Msg("Unexpected API response format", <<>>)
    ELSE Msg("", <<>>)

\* ShapeCheck as a slip would have it: the rate-limit check before the
\* error-message check.
ShapeCheck_RateLimitFirst(data, symbol) ==
    IF InRaises(data) THEN Msg("Unexpected error", <<"TypeError">>)
    ELSE IF Contains(data, "Note")
        THEN IF SubscriptRaises(data) THEN Msg("Unexpected error", <<"TypeError">>)
             ELSE Msg("API Rate Limit", <<"the value of Note">>)
    ELSE IF Contains(data, "Error Message")
        THEN Msg("API Error: Invalid stock symbol", symbol)
    ELSE IF ~Contains(data, REQUIRED_KEY)
        THEN Msg("Unexpected API response format", <<>>)
    ELSE Msg("", <<>>)

\* The three shape checks, in the order of the code: the diagnostic of the
\* first one that fails, or "" when the payload passes.
ShapeCheck(data, symbol) ==
    IF InRaises(data) THEN Msg("Unexpected error", <<"TypeError">>)
    ELSE IF Contains(data, "Error Message")
        THEN Msg("API Error: Invalid stock symbol", symbol)
    ELSE IF Contains(data, "Note")
        THEN IF SubscriptRaises(data) THEN Msg("Unexpected error", <<"TypeError">>)
             ELSE Msg("API Rate Limit", <<"the value of Note">>)
    ELSE IF ~Contains(data, REQUIRED_KEY)
        THEN Msg("Unexpected API response format", <<>>)
    ELSE Msg("", <<>>)

\* fetch_stock_data on one response: what it returns and what it prints.
fetch_stock_data(resp, symbol, b) ==
    LET exc == FetchRaises(resp, b)
        h == Catch(exc, FetchHandlers)
        check == ShapeCheck(resp.value, symbol)
    IN  IF exc # ""
            THEN [ret |-> None, raised |-> IF h = 0 THEN exc ELSE "",
                  out |-> IF h = 0 THEN <<>> ELSE <<Msg(FetchHandlers[h].text, <<exc>>)>>]
        ELSE IF check.text # ""
            THEN [ret |-> None, raised |-> "", out |-> <<check>>]
        ELSE [ret |-> resp.value, raised |-> "",
              out |-> <<Msg("Successfully fetched data", symbol)>>]

----------------------------------------------------------------------------
(* The disk *)

\* A filename is its directory part (os.path.dirname: the components before
\* the last "/") and its last component; the stock fetcher's generated name
\* stock_data_<symbol>_<timestamp>.json is stem "stock_data" with the two.
FileName(dir, stem, symbol, stamp) ==
    [dir |-> dir, stem |-> stem, symbol |-> symbol, stamp |-> stamp]

Parent(d) == SubSeq(d, 1, Len(d) - 1)

\* os.makedirs(d): the missing ancestors first, then d; a mkdir in a
\* directory that is not writable raises PermissionError and what was made
\* before it stays.
RECURSIVE Makedirs(_, _, _)
Makedirs(D, W, d) ==
    IF d \in D THEN [raised |-> "", dirs |-> D, writable |-> W]
    ELSE LET up == Makedirs(D, W, Parent(d))
         IN  IF up.raised # "" THEN up
             ELSE IF Parent(d) \notin up.writable
                 THEN [raised |-> "PermissionError", dirs |-> up.dirs,
                       writable |-> up.writable]
             ELSE [raised |-> "", dirs |-> up.dirs \cup {d},
                   writable |-> up.writable \cup {d}]

\* open(f, "w"): what it raises ("" when it opens, creating or truncating f).
OpenRaises(D, W, F, f) ==
    IF f.dir = <<>> /\ f.stem = "" THEN "FileNotFoundError"
    ELSE IF f.dir \notin D THEN "FileNotFoundError"
    ELSE IF f.stem = "" THEN "IsADirectoryError"
    ELSE IF f \notin DOMAIN F /\ f.dir \notin W THEN "PermissionError"
    ELSE ""

\* F with file f holding content.
WriteFile(F, f, content) ==
    [g \in DOMAIN F \cup {f} |-> IF g = f THEN content ELSE F[g]]

----------------------------------------------------------------------------
(* day-03: save_data_to_file *)

SCRIPT_VERSION == "1.1"

\* OutputData as a slip would have it: only the time series kept.
OutputData_SeriesOnly(data, symbol, now) ==
    [metadata |-> [symbol |-> symbol, fetched_at |-> now,
                   script_version |-> SCRIPT_VERSION],
     stock_data |-> [data EXCEPT !.keys = @ \cap {REQUIRED_KEY}]]

OutputData(data, symbol, now) ==
    [metadata |-> [symbol |-> symbol, fetched_at |-> now,
                   script_version |-> SCRIPT_VERSION],
     stock_data |-> data]

\* json.dump(output_data, file, indent=4): the chunks it writes, in order.
DumpTokens(o) ==
    << <<"metadata.symbol", o.metadata.symbol>>,
       <<"metadata.fetched_at", o.metadata.fetched_at>>,
       <<"metadata.script_version", o.metadata.script_version>>,
       <<"stock_data", o.stock_data>> >>

\* How many chunks json.dump writes before it meets a value it cannot encode.
Encodable(o) == IF o.stock_data.kind = "set" THEN 3 ELSE 4

\* json.load of a file: the record, when the file holds a whole one.
IsWholeRecord(content) ==
    /\ Len(content) = 4
    /\ content[1][1] = "metadata.symbol"
    /\ content[2][1] = "metadata.fetched_at"
    /\ content[3][1] = "metadata.script_version"
    /\ content[4][1] = "stock_data"

LoadRecord(content) ==
    [metadata |-> [symbol |-> content[1][2], fetched_at |-> content[2][2],
                   script_version |-> content[3][2]],
     stock_data |-> content[4][2]]

SaveHandlers ==
    << [cls |-> "FileNotFoundError", text |-> "Error: Invalid file path"],
       [cls |-> "PermissionError", text |-> "Error: Permission denied writing to"],
       [cls |-> "OSError", text |-> "OS Error"],
       [cls |-> "Exception", text |-> "File error"] >>

Min(a, b) == IF a < b THEN a ELSE b

\* save_data_to_file(data, f, symbol) on disk (D, W, F), with the clock
\* reading now and a device that takes `room` more chunks before it is full:
\* what it returns and prints, and the disk it leaves.
save_data_to_file(data, f, symbol, now, room, D, W, F) ==
    LET output_data == OutputData(data, symbol, now)
        tokens == DumpTokens(output_data)
        directory == f.dir
        made == IF directory # <<>> /\ directory \notin D
                    THEN Makedirs(D, W, directory)
                    ELSE [raised |-> "", dirs |-> D, writable |-> W]
        created == IF made.dirs # D THEN <<Msg("Created directory", directory)>> ELSE <<>>
        openExc == OpenRaises(made.dirs, made.writable, F, f)
        written == Min(room, Encodable(output_data))
        dumpExc == IF room < Encodable(output_data) THEN "OSError"
                   ELSE IF Encodable(output_data) < Len(tokens) THEN "TypeError"
                   ELSE ""
        exc == IF made.raised # "" THEN made.raised
               ELSE IF openExc # "" THEN openExc
               ELSE dumpExc
        opened == made.raised = ""
        h == Catch(exc, SaveHandlers)
    IN  [ret |-> exc = "",
         opened |-> opened,
         dirs |-> made.dirs,
         writable |-> made.writable,
         files |-> IF made.raised = "" /\ openExc = ""
                       THEN WriteFile(F, f, SubSeq(tokens, 1, written))
                       ELSE F,
         record |-> output_data,
         out |-> IF exc = ""
                     THEN (IF made.raised = "" /\ made.dirs # D THEN created ELSE <<>>)
                          \o <<Msg("Data saved successfully to", <<>>)>>
                     ELSE (IF made.raised = "" /\ made.dirs # D THEN created ELSE <<>>)
                          \o <<Msg(SaveHandlers[h].text, <<exc>>)>>]

----------------------------------------------------------------------------
(* day-03: main *)

Terminal == {"cancelled", "done", "failed", "returned", "crashed"}

\* The terminal shows a prompt's complaint once however often it repeats.
Complain(out) ==
    IF stdout # <<>> /\ out # <<>> /\ stdout[Len(stdout)] = out[Len(out)]
        THEN stdout ELSE stdout \o out

FailureReport ==
    << Msg("Operation failed - no data to save", <<>>), Msg("Troubleshooting tips", <<>>) >>

\* main, lines 226-233: the API key prompt and the warning.
InputApiKey ==
    /\ program = "day03" /\ pc = "input_key"
    /\ \E event \in KeyboardEvents, line \in KeyLines :
        LET r == get_user_input(event, line, DEMO_KEY, "")
            warn == IF ~validate_api_key(r.value) /\ r.value # DEMO_KEY
                        THEN <<Msg("Warning: API key looks invalid (using anyway)", <<>>)>>
                        ELSE <<>>
        IN  /\ event # "line" => line = <<>>
            /\ CASE r.kind = "exit" ->
                        /\ pc' = "cancelled"
                        /\ exitStatus' = r.status
                        /\ stdout' = stdout \o r.out
                        /\ UNCHANGED api_key
                 [] r.kind = "again" ->
                        /\ stdout' = Complain(r.out)
                        /\ UNCHANGED << pc, exitStatus, api_key >>
                 [] OTHER ->
                        /\ api_key' = r.value
                        /\ stdout' = stdout \o warn
                        /\ pc' = "input_symbol"
                        /\ UNCHANGED exitStatus
    /\ UNCHANGED << program, build, clock, dirs, writable, files, runs, stock_symbol,
                    filename, response, stock_data, httpCalls, openCalls, stages,
                    fsBefore, saveRet, saved, d2vars, d4vars >>

\* strftime("%Y%m%d_%H%M%S"): the clock reading to the second.
Timestamp(now) == now \div TicksPerSecond

\* main, lines 236-245: the symbol prompt, then the generated filename.
InputSymbol ==
    /\ program = "day03" /\ pc = "input_symbol"
    /\ \E event \in KeyboardEvents, line \in SymbolLines, now \in clock..MaxClock :
        LET r == get_user_input(event, line, DEFAULT_SYMBOL, "validate_stock_symbol")
        IN  /\ event # "line" => line = <<>>
            /\ r.kind # "value" => now = clock
            /\ CASE r.kind = "exit" ->
                        /\ pc' = "cancelled"
                        /\ exitStatus' = r.status
                        /\ stdout' = stdout \o r.out
                        /\ UNCHANGED << stock_symbol, filename, clock, stages >>
                 [] r.kind = "again" ->
                        /\ stdout' = Complain(r.out)
                        /\ UNCHANGED << pc, exitStatus, stock_symbol, filename, clock,
                                        stages >>
                 [] OTHER ->
                        /\ stock_symbol' = r.value
                        /\ clock' = now
                        /\ filename' = FileName(<<>>, "stock_data", r.value, Timestamp(now))
                        /\ pc' = "fetch"
                        /\ stages' = <<"Fetching">>
                        /\ UNCHANGED << exitStatus, stdout >>
    /\ UNCHANGED << program, build, dirs, writable, files, runs, api_key, response,
                    stock_data, httpCalls, openCalls, fsBefore, saveRet, saved, d2vars,
                    d4vars >>

\* FetchFailedExit as a slip would have it: the fetch tried again.
FetchFailedExit_Retries(out) ==
    /\ stdout' = stdout \o out
    /\ exitStatus' = NoExit
    /\ pc' = "fetch"
    /\ stages' = Append(stages, "Fetching")

\* main, lines 270-281: the fetch gave nothing; report and sys.exit(1).
FetchFailedExit(out) ==
    /\ stdout' = stdout \o out \o FailureReport
    /\ exitStatus' = 1
    /\ pc' = "failed"
    /\ stages' = Append(stages, "Failed")

\* fetch_stock_data, lines 46-66 and its except clauses: the request, the
\* status check and the JSON parse, on a response the network gives.
Fetch(Responses) ==
    /\ program = "day03" /\ pc = "fetch"
    /\ \E resp \in Responses :
        LET r == fetch_stock_data(resp, stock_symbol, build)
        IN  /\ response' = resp
            /\ httpCalls' = httpCalls + 1
            /\ IF FetchRaises(resp, build) # ""
                   THEN /\ FetchFailedExit(r.out)
                        /\ stock_data' = r.ret
                   ELSE /\ pc' = "validate"
                        /\ stages' = Append(stages, "Validating")
                        /\ UNCHANGED << stdout, exitStatus, stock_data >>
    /\ UNCHANGED << program, build, clock, dirs, writable, files, runs, api_key,
                    stock_symbol, filename, openCalls, fsBefore, saveRet, saved, d2vars,
                    d4vars >>

\* fetch_stock_data, lines 68-87, and main's `if stock_data:`.
Validate ==
    /\ program = "day03" /\ pc = "validate"
    /\ LET r == fetch_stock_data(response, stock_symbol, build)
       IN  /\ stock_data' = r.ret
           /\ IF Truthy(r.ret)
                  THEN /\ pc' = "persist"
                       /\ stages' = Append(stages, "Persisting")
                       /\ stdout' = stdout \o r.out
                       /\ UNCHANGED exitStatus
                  ELSE FetchFailedExit(r.out)
    /\ UNCHANGED << program, build, clock, dirs, writable, files, runs, api_key,
                    stock_symbol, filename, response, httpCalls, openCalls, fsBefore,
                    saveRet, saved, d2vars, d4vars >>

\* SavedExit as a slip would have it: no sys.exit(1) after a failed save.
SavedExit_NoExitCode(ok) ==
    IF ok THEN [pc |-> "done", status |-> 0, stage |-> "Done",
                out |-> <<Msg("Operation completed successfully!", <<>>)>>]
    ELSE [pc |-> "failed", status |-> 0, stage |-> "Failed",
          out |-> <<Msg("Data fetched but could not be saved", <<>>)>>]

\* main, lines 259-269: what follows save_data_to_file's return.
SavedExit(ok) ==
    IF ok THEN [pc |-> "done", status |-> 0, stage |-> "Done",
                out |-> <<Msg("Operation completed successfully!", <<>>)>>]
    ELSE [pc |-> "failed", status |-> 1, stage |-> "Failed",
          out |-> <<Msg("Data fetched but could not be saved", <<>>)>>]

\* How much room the device may have left, in chunks of a record.
Rooms == 0..Len(DumpTokens(OutputData(None, <<>>, 0)))

\* main, lines 255-269: save_data_to_file and the exit that follows it.
Persist(RoomLeft) ==
    /\ program = "day03" /\ pc = "persist"
    /\ \E now \in clock..MaxClock, room \in RoomLeft :
        LET r == save_data_to_file(stock_data, filename, stock_symbol, now, room,
                                   dirs, writable, files)
            e == SavedExit(r.ret)
        IN  /\ clock' = now
            /\ fsBefore' = [dirs |-> dirs, files |-> files]
            /\ dirs' = r.dirs
            /\ writable' = r.writable
            /\ files' = r.files
            /\ openCalls' = openCalls + (IF r.opened THEN 1 ELSE 0)
            /\ saveRet' = Returned(r.ret)
            /\ saved' = IF r.ret
                            THEN Append(saved, [filename |-> filename, record |-> r.record])
                            ELSE saved
            /\ stdout' = stdout \o r.out \o e.out
            /\ exitStatus' = e.status
            /\ pc' = e.pc
            /\ stages' = Append(stages, e.stage)
    /\ UNCHANGED << program, build, runs, api_key, stock_symbol, filename, response,
                    stock_data, httpCalls, d2vars, d4vars >>

\* python api_data_fetcher.py once more: a new process, on the disk and
\* under the clock the last one left.
RunAgain ==
    /\ program = "day03" /\ pc \in Terminal
    /\ runs < MaxRuns
    /\ pc' = "input_key"
    /\ runs' = runs + 1
    /\ exitStatus' = NoExit
    /\ stdout' = <<>>
    /\ api_key' = <<>>
    /\ stock_symbol' = <<>>
    /\ filename' = NoFilename
    /\ response' = NoResponse
    /\ stock_data' = None
    /\ httpCalls' = 0
    /\ openCalls' = 0
    /\ stages' = <<>>
    /\ saveRet' = NoRet
    /\ fsBefore' = [dirs |-> dirs, files |-> files]
    /\ UNCHANGED << program, build, clock, dirs, writable, files, saved, d2vars, d4vars >>

----------------------------------------------------------------------------
(* save_data_to_file called by another caller, with any arguments *)

SaveFilenames ==
    { FileName(<<>>, "x", <<>>, 0), FileName(<<"out">>, "x", <<>>, 0),
      FileName(<<"out", "sub">>, "x", <<>>, 0), FileName(<<"out">>, "", <<>>, 0),
      FileName(<<>>, "", <<>>, 0) }

SaveData == { [kind |-> "dict", keys |-> {REQUIRED_KEY}, rev |-> 1], Unserialisable }

CallSave ==
    /\ program = "save_call" /\ pc = "call"
    /\ \E data \in SaveData, f \in SaveFilenames, now \in clock..MaxClock, room \in Rooms :
        LET r == save_data_to_file(data, f, DEFAULT_SYMBOL, now, room, dirs, writable, files)
        IN  /\ pc' = "returned"
            /\ stock_data' = data
            /\ filename' = f
            /\ stock_symbol' = DEFAULT_SYMBOL
            /\ clock' = now
            /\ fsBefore' = [dirs |-> dirs, files |-> files]
            /\ dirs' = r.dirs
            /\ writable' = r.writable
            /\ files' = r.files
            /\ openCalls' = openCalls + (IF r.opened THEN 1 ELSE 0)
            /\ saveRet' = Returned(r.ret)
            /\ saved' = IF r.ret THEN Append(saved, [filename |-> f, record |-> r.record])
                        ELSE saved
            /\ stdout' = stdout \o r.out
    /\ UNCHANGED << program, exitStatus, build, runs, api_key, response, httpCalls, stages,
                    d2vars, d4vars >>

----------------------------------------------------------------------------
(* day-02: api_data_fetcher.py *)

OUTPUT_FILE == FileName(<<>>, "output.json", <<>>, 0)

Ann == [id |-> 1, name |-> "Ann", username |-> "ann1", email |-> "ann@x",
        address |-> [street |-> "Via", city |-> "Rome"],
        company |-> [name |-> "Acme", bs |-> "b"]]
Bob == [id |-> 2, name |-> "Bob", username |-> "bob2", email |-> "bob@x",
        address |-> [street |-> "Gate", city |-> "Oslo"],
        company |-> [name |-> "Bolt", bs |-> "c"]]
NoEmail == [id |-> 3, name |-> "Cy", username |-> "cy3",
            address |-> [street |-> "Rue", city |-> "Lyon"],
            company |-> [name |-> "Cie", bs |-> "d"]]
NoCity == [id |-> 4, name |-> "Di", username |-> "di4", email |-> "di@x",
           address |-> [street |-> "Way"],
           company |-> [name |-> "Dot", bs |-> "e"]]

SampleUsers == {Ann, Bob, NoEmail, NoCity}

\* What the users endpoint can answer with: an array of users, or an object.
UserBodies ==
    {[kind |-> "list", items |-> u] : u \in UNION {[1..n -> SampleUsers] : n \in 0..MaxUsers}}
    \cup {[kind |-> "dict", items |-> <<>>]}

NoUsers == [kind |-> "list", items |-> <<>>]

UserResponses ==
    {r \in HttpResponses : ~r.json}
    \cup {[raised |-> "", status |-> 200, json |-> TRUE, value |-> None]}

\* fetch_api_data: what it returns, or the exception it lets through (it has
\* no try).
fetch_api_data(resp, body, b) ==
    [raised |-> FetchRaises(resp, b), ret |-> body]

\* One pass of process_data's loop body: the dictionary it appends, or the
\* KeyError of the first subscript that misses.
ProcessUser(user) ==
    IF "id" \notin DOMAIN user THEN [raised |-> "KeyError", key |-> "id", ret |-> <<>>]
    ELSE IF "name" \notin DOMAIN user THEN [raised |-> "KeyError", key |-> "name", ret |-> <<>>]
    ELSE IF "email" \notin DOMAIN user
        THEN [raised |-> "KeyError", key |-> "email", ret |-> <<>>]
    ELSE IF "address" \notin DOMAIN user
        THEN [raised |-> "KeyError", key |-> "address", ret |-> <<>>]
    ELSE IF "city" \notin DOMAIN user.address
        THEN [raised |-> "KeyError", key |-> "city", ret |-> <<>>]
    ELSE IF "company" \notin DOMAIN user
        THEN [raised |-> "KeyError", key |-> "company", ret |-> <<>>]
    ELSE IF "name" \notin DOMAIN user.company
        THEN [raised |-> "KeyError", key |-> "name", ret |-> <<>>]
    ELSE [raised |-> "", key |-> "",
          ret |-> << [id |-> user.id, name |-> user.name, email |-> user.email,
                      city |-> user.address.city, company |-> user.company.name] >>]

RECURSIVE ProcessFrom(_, _, _)
ProcessFrom(items, i, processed_users) ==
    IF i > Len(items) THEN [raised |-> "", key |-> "", ret |-> processed_users]
    ELSE LET one == ProcessUser(items[i])
         IN  IF one.raised # "" THEN one
             ELSE ProcessFrom(items, i + 1, processed_users \o one.ret)

\* process_data(users): iterating an object gives its keys, and a string
\* subscripted by "id" raises TypeError.
process_data(body) ==
    IF body.kind = "dict" THEN [raised |-> "TypeError", key |-> "", ret |-> <<>>]
    ELSE ProcessFrom(body.items, 1, <<>>)

\* json.dump(data, file, indent=4) of a list: its chunks, in order.
DumpList(data) == [i \in 1..Len(data) |-> <<"item", data[i]>>] \o << <<"end", <<>>>> >>

IsWholeList(content) == content # <<>> /\ content[Len(content)][1] = "end"

LoadList(content) == [i \in 1..Len(content) - 1 |-> content[i][2]]

\* A process ended by an exception nothing caught: the traceback, status 1.
Crash(exc, arg) ==
    /\ uncaught' = exc
    /\ exitStatus' = 1
    /\ pc' = "crashed"
    /\ stdout' = Append(stdout, Msg("Traceback (most recent call last)", <<exc, arg>>))

\* main, lines 67-70.
FetchUsers ==
    /\ program = "day02" /\ pc = "d2_fetch"
    /\ \E resp \in UserResponses, body \in UserBodies :
        LET r == fetch_api_data(resp, body, build)
        IN  /\ ~resp.json => body = NoUsers
            /\ response' = resp
            /\ IF r.raised # ""
                   THEN /\ Crash(r.raised, "")
                        /\ UNCHANGED users
                   ELSE /\ users' = r.ret
                        /\ pc' = "d2_process"
                        /\ stdout' = Append(stdout, Msg("Processing data...", <<>>))
                        /\ UNCHANGED << exitStatus, uncaught >>
    /\ UNCHANGED << program, build, clock, dirs, writable, files, processed_data,
                    d3vars, d4vars >>

\* main, lines 72-87.
ProcessUsers ==
    /\ program = "day02" /\ pc = "d2_process"
    /\ LET r == process_data(users)
       IN  IF r.raised # ""
               THEN /\ Crash(r.raised, r.key)
                    /\ UNCHANGED processed_data
               ELSE /\ processed_data' = r.ret
                    /\ pc' = "d2_save"
                    /\ stdout' = Append(stdout, Msg("Processed User Data", <<>>))
                    /\ UNCHANGED << exitStatus, uncaught >>
    /\ UNCHANGED << program, build, clock, dirs, writable, files, response, users,
                    d3vars, d4vars >>

\* main, lines 89-92, with save_to_json.
SaveUsers ==
    /\ program = "day02" /\ pc = "d2_save"
    /\ \E room \in 0..Len(DumpList(processed_data)) :
        LET tokens == DumpList(processed_data)
            exc == OpenRaises(dirs, writable, files, OUTPUT_FILE)
        IN  IF exc # ""
                THEN /\ Crash(exc, "")
                     /\ UNCHANGED files
            ELSE IF room < Len(tokens)
                THEN /\ Crash("OSError", "")
                     /\ files' = WriteFile(files, OUTPUT_FILE, SubSeq(tokens, 1, room))
            ELSE /\ files' = WriteFile(files, OUTPUT_FILE, tokens)
                 /\ pc' = "done"
                 /\ exitStatus' = 0
                 /\ stdout' = Append(stdout, Msg("Data successfully saved to", <<>>))
                 /\ UNCHANGED uncaught
    /\ UNCHANGED << program, build, clock, dirs, writable, response, users,
                    processed_data, d3vars, d4vars >>

----------------------------------------------------------------------------
(* day-04: log_analyzer.py *)

LOG_FILE == "app.log"
TEXT_OUTPUT == FileName(<<>>, "log_summary.txt", <<>>, 0)
JSON_OUTPUT == FileName(<<>>, "log_summary.json", <<>>, 0)

Levels == <<"INFO", "WARNING", "ERROR">>

\* A log line is a sequence of words and blanks; the level names are words.
LogTokens == {"INFO", "WARNING", "ERROR", "info", " "}

LinesOfLen(k) == [1..k -> LogTokens]

\* The files of m lines holding at most t tokens in all.
RECURSIVE FilesOf(_, _)
FilesOf(m, t) ==
    IF m = 0 THEN {<<>>}
    ELSE UNION { {<<l>> \o f : l \in LinesOfLen(k), f \in FilesOf(m - 1, t - k)} : k \in 0..t }

LogFiles == UNION {FilesOf(m, MaxTokens) : m \in 0..MaxLines}

\* `name in line`: the name occurs in the line.
Occurs(name, line) == \E i \in 1..Len(line) : line[i] = name

ZeroCounts == [l \in {"INFO", "WARNING", "ERROR"} |-> 0]
NoDetails == [l \in {"INFO", "WARNING", "ERROR"} |-> <<>>]

\* read_log_file(file_path)
ReadHandlers ==
    << [cls |-> "FileNotFoundError", text |-> "ERROR: File not found"],
       [cls |-> "ValueError", text |-> "ERROR: Log file is empty"],
       [cls |-> "Exception", text |-> "ERROR: Unexpected error reading file"] >>

read_log_file(file) ==
    LET exc == IF file.state = "missing" THEN "FileNotFoundError"
               ELSE IF file.state = "unreadable" THEN "PermissionError"
               ELSE IF file.lines = <<>> THEN "ValueError"
               ELSE ""
    IN  IF exc = "" THEN [ok |-> TRUE, lines |-> file.lines, out |-> <<>>]
        ELSE [ok |-> FALSE, lines |-> <<>>,
              out |-> <<Msg(ReadHandlers[Catch(exc, ReadHandlers)].text, <<exc>>)>>]

\* LevelOf as a slip would have it: ERROR tested first.
LevelOf_ErrorFirst(line) ==
    IF Occurs("ERROR", line) THEN "ERROR"
    ELSE IF Occurs("INFO", line) THEN "INFO"
    ELSE IF Occurs("WARNING", line) THEN "WARNING"
    ELSE ""

\* analyze_logs, lines 50-64: the level the if/elif chain gives a stripped
\* line ("" when no branch is taken).
LevelOf(line) ==
    IF Occurs("INFO", line) THEN "INFO"
    ELSE IF Occurs("WARNING", line) THEN "WARNING"
    ELSE IF Occurs("ERROR", line) THEN "ERROR"
    ELSE ""

\* main, lines 165-177: read the log, stop when there is none.
ReadLog ==
    /\ program = "day04" /\ pc = "d4_read"
    /\ LET r == read_log_file(appLog)
       IN  IF ~r.ok \/ r.lines = <<>>
               THEN /\ stdout' = stdout \o r.out \o <<Msg("Log analysis failed", <<>>)>>
                    /\ pc' = "returned"
                    /\ exitStatus' = 0
                    /\ UNCHANGED log_lines
               ELSE /\ log_lines' = r.lines
                    /\ stdout' = Append(stdout, Msg("Successfully read lines", <<>>))
                    /\ pc' = "d4_analyze"
                    /\ UNCHANGED exitStatus
    /\ UNCHANGED << program, build, clock, dirs, writable, files, response, appLog, lineNo,
                    log_counts, log_details, total_lines, d3vars, d2vars >>

\* AnalyzeLine as a slip would have it: total_lines counted before the blank
\* test, so that blank lines are counted too.
AnalyzeLine_CountsBlanks ==
    /\ program = "day04" /\ pc = "d4_analyze"
    /\ lineNo <= Len(log_lines)
    /\ LET line == Strip(log_lines[lineNo])
           level == LevelOf(line)
       IN  /\ lineNo' = lineNo + 1
           /\ total_lines' = total_lines + 1
           /\ IF line = <<>> \/ level = ""
                  THEN UNCHANGED << log_counts, log_details >>
                  ELSE /\ log_counts' = [log_counts EXCEPT ![level] = @ + 1]
                       /\ log_details' = [log_details EXCEPT ![level] = Append(@, line)]
    /\ UNCHANGED << program, pc, exitStatus, stdout, build, clock, dirs, writable, files,
                    response, appLog, log_lines, d3vars, d2vars >>

\* analyze_logs, lines 49-64: one pass of the loop.
AnalyzeLine ==
    /\ program = "day04" /\ pc = "d4_analyze"
    /\ lineNo <= Len(log_lines)
    /\ LET line == Strip(log_lines[lineNo])
           level == LevelOf(line)
       IN  /\ lineNo' = lineNo + 1
           /\ IF line = <<>>
                  THEN UNCHANGED << total_lines, log_counts, log_details >>
                  ELSE /\ total_lines' = total_lines + 1
                       /\ IF level = ""
                              THEN UNCHANGED << log_counts, log_details >>
                              ELSE /\ log_counts' =
                                        [log_counts EXCEPT ![level] = @ + 1]
                                   /\ log_details' =
                                        [log_details EXCEPT ![level] = Append(@, line)]
    /\ UNCHANGED << program, pc, exitStatus, stdout, build, clock, dirs, writable, files,
                    response, appLog, log_lines, d3vars, d2vars >>

\* print_summary(analysis), once the loop is over.
PrintSummary ==
    /\ program = "day04" /\ pc = "d4_analyze"
    /\ lineNo > Len(log_lines)
    /\ stdout' = stdout
            \o <<Msg("LOG ANALYSIS SUMMARY", <<>>)>>
            \o (IF log_counts["ERROR"] > 0 THEN <<Msg("CRITICAL: Found ERROR", <<>>)>> ELSE <<>>)
            \o (IF log_counts["WARNING"] > 0 THEN <<Msg("ATTENTION: Found WARNING", <<>>)>>
                ELSE <<>>)
    /\ pc' = "d4_write_text"
    /\ UNCHANGED << program, exitStatus, build, clock, dirs, writable, files, response,
                    d3vars, d2vars, d4vars >>

TextTokens(now) ==
    << <<"Generated", now>>, <<"Total log entries processed", total_lines>>,
       <<"counts", log_counts>>, <<"messages", log_details>> >>

JsonTokens(now) ==
    << <<"timestamp", now>>, <<"total_lines", total_lines>>, <<"summary", log_counts>>,
       <<"details", log_details>> >>

\* A summary writer's try block on file f: the disk it leaves and what it prints.
WriteSummary(f, tokens, room, okText, errText) ==
    LET exc == OpenRaises(dirs, writable, files, f)
    IN  IF exc # "" THEN [files |-> files, out |-> <<Msg(errText, <<exc>>)>>]
        ELSE IF room < Len(tokens)
            THEN [files |-> WriteFile(files, f, SubSeq(tokens, 1, room)),
                  out |-> <<Msg(errText, <<"OSError">>)>>]
        ELSE [files |-> WriteFile(files, f, tokens), out |-> <<Msg(okText, <<>>)>>]

\* write_text_summary(analysis, text_output)
WriteText ==
    /\ program = "day04" /\ pc = "d4_write_text"
    /\ \E now \in clock..MaxClock, full \in BOOLEAN :
        LET tokens == TextTokens(Timestamp(now))
            r == WriteSummary(TEXT_OUTPUT, tokens, IF full THEN 0 ELSE Len(tokens),
                              "Text summary written to",
                              "ERROR: Failed to write text summary")
        IN  /\ clock' = now
            /\ files' = r.files
            /\ stdout' = stdout \o r.out
            /\ pc' = "d4_write_json"
    /\ UNCHANGED << program, exitStatus, build, dirs, writable, response, d3vars, d2vars,
                    d4vars >>

\* write_json_summary(analysis, json_output), then main's last print and return.
WriteJson ==
    /\ program = "day04" /\ pc = "d4_write_json"
    /\ \E now \in clock..MaxClock, full \in BOOLEAN :
        LET tokens == JsonTokens(Timestamp(now))
            r == WriteSummary(JSON_OUTPUT, tokens, IF full THEN 0 ELSE Len(tokens),
                              "JSON summary written to",
                              "ERROR: Failed to write JSON summary")
        IN  /\ clock' = now
            /\ files' = r.files
            /\ stdout' = stdout \o r.out
                    \o <<Msg("Log analysis completed successfully!", <<>>)>>
            /\ pc' = "returned"
            /\ exitStatus' = 0
    /\ UNCHANGED << program, build, dirs, writable, response, d3vars, d2vars, d4vars >>

----------------------------------------------------------------------------
(* The specifications *)

OldFile == FileName(<<>>, "x", <<>>, 0)
OldContent == DumpTokens(OutputData([kind |-> "dict", keys |-> {REQUIRED_KEY}, rev |-> 2],
                                    DEFAULT_SYMBOL, 0))

NoLog == [state |-> "missing", lines |-> <<>>]

\* What every process starts with.
Fresh ==
    /\ exitStatus = NoExit
    /\ stdout = <<>>
    /\ clock = 0
    /\ runs = 1
    /\ api_key = <<>>
    /\ stock_symbol = <<>>
    /\ filename = NoFilename
    /\ response = NoResponse
    /\ stock_data = None
    /\ httpCalls = 0
    /\ openCalls = 0
    /\ stages = <<>>
    /\ fsBefore = [dirs |-> dirs, files |-> files]
    /\ saveRet = NoRet
    /\ saved = <<>>
    /\ uncaught = ""
    /\ users = NoUsers
    /\ processed_data = <<>>
    /\ log_lines = <<>>
    /\ lineNo = 1
    /\ log_counts = ZeroCounts
    /\ log_details = NoDetails
    /\ total_lines = 0

\* The stock fetcher starts in a working directory it may or may not write to.
InitStockFetcher ==
    /\ program = "day03" /\ pc = "input_key"
    /\ build \in RequestsBuilds
    /\ dirs = {<<>>}
    /\ writable \in SUBSET dirs
    /\ files = <<>>
    /\ appLog = NoLog
    /\ Fresh

\* A caller of save_data_to_file, on a disk with or without the directory
\* out and an earlier file x.
InitCallSave ==
    /\ program = "save_call" /\ pc = "call"
    /\ build = "requests>=2.27"
    /\ dirs \in { {<<>>}, {<<>>, <<"out">>} }
    /\ writable \in SUBSET dirs
    /\ files \in { <<>>, WriteFile(<<>>, OldFile, OldContent) }
    /\ appLog = NoLog
    /\ Fresh

\* The user fetcher, in a working directory it may or may not write to.
InitUserFetcher ==
    /\ program = "day02" /\ pc = "d2_fetch"
    /\ build \in RequestsBuilds
    /\ dirs = {<<>>}
    /\ writable \in SUBSET dirs
    /\ files = <<>>
    /\ appLog = NoLog
    /\ Fresh

\* The log analyzer, beside an app.log that is missing, unreadable or holds
\* some lines.
InitLogAnalyzer ==
    /\ program = "day04" /\ pc = "d4_read"
    /\ build = "requests>=2.27"
    /\ dirs = {<<>>}
    /\ writable \in SUBSET dirs
    /\ files = <<>>
    /\ appLog \in {[state |-> s, lines |-> <<>>] : s \in {"missing", "unreadable"}}
                    \cup {[state |-> "present", lines |-> f] : f \in LogFiles}
    /\ Fresh

Init == InitStockFetcher \/ InitCallSave \/ InitUserFetcher \/ InitLogAnalyzer

Next ==
    \/ InputApiKey
    \/ InputSymbol
    \/ Fetch(HttpResponses)
    \/ Validate
    \/ Persist(Rooms)
    \/ CallSave
    \/ FetchUsers
    \/ ProcessUsers
    \/ SaveUsers
    \/ ReadLog
    \/ AnalyzeLine
    \/ PrintSummary
    \/ WriteText
    \/ WriteJson

Spec == Init /\ [][Next]_vars

\* Several runs of the stock fetcher, one after the other, on one disk: the
\* network gives a good response or times out, the device is full or not.
FewResponses ==
    { r \in HttpResponses :
        \/ r.raised = "requests.Timeout"
        \/ r.json /\ r.value.kind = "dict" /\ r.value.keys = {REQUIRED_KEY} }

InitRuns == InitStockFetcher /\ build = "requests>=2.27" /\ writable = dirs

NextRuns ==
    \/ InputApiKey
    \/ InputSymbol
    \/ Fetch(FewResponses)
    \/ Validate
    \/ Persist({0, Len(DumpTokens(OutputData(None, <<>>, 0)))})
    \/ RunAgain

SpecRuns == InitRuns /\ [][NextRuns]_vars

----------------------------------------------------------------------------
(* What the claims speak of *)

Range(q) == {q[i] : i \in 1..Len(q)}

Printed(text) == \E i \in 1..Len(stdout) : stdout[i].text = text

\* The response was read and parsed, and passes the three shape checks.
PassedChecks ==
    /\ response.raised = ""
    /\ response.status = 200
    /\ response.json
    /\ response.value.kind \in {"dict", "list"}
    /\ "Error Message" \notin response.value.keys
    /\ "Note" \notin response.value.keys
    /\ REQUIRED_KEY \in response.value.keys

\* The run's file holds a whole record.
RecordWritten ==
    /\ filename \in DOMAIN files
    /\ IsWholeRecord(files[filename])

DiskUntouched == dirs = fsBefore.dirs /\ files = fsBefore.files

\* A file this run created or changed holds less than a whole record.
PartialFile ==
    \E f \in DOMAIN files :
        /\ f \notin DOMAIN fsBefore.files \/ files[f] # fsBefore.files[f]
        /\ ~IsWholeRecord(files[f])

StockRunOver == program = "day03" /\ pc \in {"done", "failed"}

DiagnosticTexts ==
    {FetchHandlers[i].text : i \in 1..Len(FetchHandlers)}
    \cup {SaveHandlers[i].text : i \in 1..Len(SaveHandlers)}
    \cup {"API Error: Invalid stock symbol", "API Rate Limit", "Unexpected API response format"}

\* C2: a stock-fetcher run that reached the fetch stage exits with status 0
\* exactly when the record was fetched, validated and saved; every other such
\* run exits with a non-zero status, having printed a diagnostic of the cause.
C2_ExitStatus ==
    /\ program = "day03" /\ pc \notin Terminal => exitStatus = NoExit
    /\ StockRunOver =>
        /\ exitStatus = 0 <=> (PassedChecks /\ RecordWritten)
        /\ ~(PassedChecks /\ RecordWritten) =>
              /\ exitStatus > 0
              /\ \E i \in 1..Len(stdout) : stdout[i].text \in DiagnosticTexts

\* A run that fetched and validated the record, failed to save it and exited 1.
C2_Witness ==
    /\ StockRunOver
    /\ PassedChecks
    /\ ~RecordWritten
    /\ exitStatus = 1

StageOrder == <<"Fetching", "Validating", "Persisting", "Done">>

IsPrefix(p, q) == Len(p) <= Len(q) /\ \A i \in 1..Len(p) : p[i] = q[i]

\* The stages entered, without a closing Failed.
Progress ==
    IF stages # <<>> /\ stages[Len(stages)] = "Failed"
        THEN SubSeq(stages, 1, Len(stages) - 1) ELSE stages

\* C3: a stock-fetcher run enters Fetching, Validating, Persisting, Done in
\* that order, none twice; it makes at most one HTTP request and at most one
\* file write; a failure in any stage (a timed-out fetch among them) goes
\* straight to Failed; after Failed no stage is entered, nothing is written
\* and nothing is retried.
C3_StagesInOrder ==
    program = "day03" =>
        /\ IsPrefix(Progress, StageOrder)
        /\ Progress # <<>> \/ stages = <<>>
        /\ httpCalls <= 1 /\ openCalls <= 1
        /\ httpCalls = (IF Len(stages) >= 2 THEN 1 ELSE 0)
        /\ openCalls = 1 => "Persisting" \in Range(stages)
        /\ pc = "fetch" <=> stages = <<"Fetching">>
        /\ pc = "validate" <=> stages = <<"Fetching", "Validating">>
        /\ pc = "persist" <=> stages = <<"Fetching", "Validating", "Persisting">>
        /\ pc = "done" <=> stages = StageOrder
        /\ pc = "failed" <=> "Failed" \in Range(stages)
        /\ pc = "failed" => ~ENABLED Next
        /\ response.raised = "requests.Timeout" =>
              /\ stages = <<"Fetching", "Failed">>
              /\ openCalls = 0
              /\ DiskUntouched
        /\ pc = "failed" /\ ~PassedChecks => openCalls = 0 /\ DiskUntouched

\* A run whose fetch timed out.
C3_Witness ==
    /\ program = "day03"
    /\ response.raised = "requests.Timeout"
    /\ pc = "failed"
    /\ Printed("Error: Request timed out after 10 seconds")

SaveReturned == program \in {"day03", "save_call"} /\ saveRet # NoRet

\* C4 as the spec states it: when the directory cannot be created the write is
\* not attempted, and a save_data_to_file that returns False has created
\* nothing: no directory, no new file, no truncated file.
C4_AsStated ==
    SaveReturned =>
        /\ filename.dir \notin dirs => openCalls = 0
        /\ saveRet = Returned(FALSE) => DiskUntouched

ValidationTexts ==
    {"API Error: Invalid stock symbol", "API Rate Limit", "Unexpected API response format",
     "Unexpected error"}

\* The response was read and parsed, and it lacks the required key.
ParsedWithoutKey ==
    /\ response.raised = "" /\ response.status = 200 /\ response.json
    /\ REQUIRED_KEY \notin response.value.keys

\* The keys of the response a message names: its text is fixed and names
\* none, so those among the values it was formatted with.
KeysNamedIn(m) == {k \in ApiKeys : k \in Range(m.arg)}

ValidationDiagnostics == {i \in 1..Len(stdout) : stdout[i].text \in ValidationTexts}

ValidationOver == program = "day03" /\ pc \in {"persist", "done", "failed"}

\* C5 as the spec states it: a response body that is not JSON puts the fetch
\* in the "Invalid JSON response" outcome and no exception leaves the fetch,
\* in fetch_stock_data and in fetch_api_data.
C5_AsStated ==
    (response.raised = "" /\ response.status = 200 /\ ~response.json) =>
        /\ uncaught = ""
        /\ program = "day03" => Printed("Error: Invalid JSON response from API")

\* C6 as the spec states it: a parsed response without the required key
\* fails validation with a diagnostic that names the key, the run halts
\* before persistence, and the first failing check alone gives the reason.
C6_AsStated ==
    (ValidationOver /\ ParsedWithoutKey) =>
        /\ pc = "failed" /\ saveRet = NoRet /\ openCalls = 0
        /\ Cardinality(ValidationDiagnostics) = 1
        /\ \A i \in ValidationDiagnostics : REQUIRED_KEY \in KeysNamedIn(stdout[i])

\* C6, amended: a parsed response without the required key fails validation
\* and the run halts before persistence (save_data_to_file is never called);
\* exactly one diagnostic is printed, that of the first failing check in the
\* order error message, rate limit, required key, and it does not name the
\* missing key (it reads "Unexpected API response format" when only the key
\* is missing).
C6_FailsFastWithoutNamingKey ==
    (ValidationOver /\ ParsedWithoutKey) =>
        /\ pc = "failed" /\ saveRet = NoRet /\ openCalls = 0 /\ DiskUntouched
        /\ Cardinality(ValidationDiagnostics) = 1
        /\ \A i \in ValidationDiagnostics :
            LET v == response.value
                isObject == v.kind = "dict"
                isArray == v.kind = "list"
            IN  /\ KeysNamedIn(stdout[i]) = {}
                /\ (isObject \/ isArray) /\ "Error Message" \in v.keys =>
                        stdout[i].text = "API Error: Invalid stock symbol"
                /\ isObject /\ "Error Message" \notin v.keys /\ "Note" \in v.keys =>
                        stdout[i].text = "API Rate Limit"
                /\ (isObject \/ isArray) /\ "Error Message" \notin v.keys
                        /\ "Note" \notin v.keys =>
                        stdout[i].text = "Unexpected API response format"

\* A run failed by a response that has both the error message and the note.
C6_Witness ==
    /\ ValidationOver /\ ParsedWithoutKey
    /\ response.value.kind = "dict"
    /\ {"Error Message", "Note"} \subseteq response.value.keys
    /\ Printed("API Error: Invalid stock symbol")

FiveFields == {"id", "name", "email", "city", "company"}

\* C7 as the spec states it: in a run that ends in Done the stored payload
\* equals the value the fetch returned, in the stock fetcher and in the user
\* fetcher.
C7_AsStated ==
    /\ program = "day03" /\ pc = "done" =>
          /\ RecordWritten
          /\ LoadRecord(files[filename]).stock_data = response.value
    /\ program = "day02" /\ pc = "done" =>
          /\ OUTPUT_FILE \in DOMAIN files /\ IsWholeList(files[OUTPUT_FILE])
          /\ LoadList(files[OUTPUT_FILE]) = users.items

\* C7, amended: in a stock-fetcher run that ends in Done the stored payload
\* equals the value the fetch returned, field for field; the user fetcher
\* stores, for each fetched user and in the fetched order, exactly the five
\* fields id, name, email, city (the user's address.city) and company (the
\* user's company.name), and drops the rest.
C7_StoredPayload ==
    /\ program = "day03" /\ pc = "done" =>
          /\ RecordWritten
          /\ LoadRecord(files[filename]).stock_data = response.value
          /\ LoadRecord(files[filename]).metadata.symbol = stock_symbol
    /\ program = "day02" /\ pc = "done" =>
          /\ OUTPUT_FILE \in DOMAIN files /\ IsWholeList(files[OUTPUT_FILE])
          /\ LET stored == LoadList(files[OUTPUT_FILE])
             IN  /\ Len(stored) = Len(users.items)
                 /\ \A i \in 1..Len(stored) :
                        /\ DOMAIN stored[i] = FiveFields
                        /\ stored[i].id = users.items[i].id
                        /\ stored[i].name = users.items[i].name
                        /\ stored[i].email = users.items[i].email
                        /\ stored[i].city = users.items[i].address.city
                        /\ stored[i].company = users.items[i].company.name

\* A stock-fetcher run that stored a payload with more than the time series.
C7_Witness ==
    /\ program = "day03" /\ pc = "done"
    /\ response.value.keys = {"Meta Data", REQUIRED_KEY}

\* C8 as the spec states it, for two runs that were given the same response
\* at different instants: two successful runs for one symbol write two files
\* of different names, the first record is still there after the second run,
\* and the records differ in fetched_at alone.
C8_AsStated ==
    (/\ program = "day03" /\ Len(saved) = 2
     /\ saved[1].record.metadata.symbol = saved[2].record.metadata.symbol
     /\ saved[1].record.stock_data = saved[2].record.stock_data
     /\ saved[1].record.metadata.fetched_at < saved[2].record.metadata.fetched_at) =>
        /\ saved[1].filename # saved[2].filename
        /\ saved[1].filename \in DOMAIN files
        /\ files[saved[1].filename] = DumpTokens(saved[1].record)
        /\ saved[1].record.metadata.script_version = saved[2].record.metadata.script_version

\* The level the claim gives a line: the first of INFO, WARNING, ERROR that
\* occurs in it ("" when none does).
FirstLevel(line) ==
    IF \E i \in 1..Len(Levels) : Occurs(Levels[i], line)
        THEN Levels[CHOOSE i \in 1..Len(Levels) :
                        /\ Occurs(Levels[i], line)
                        /\ \A j \in 1..(i - 1) : ~Occurs(Levels[j], line)]
        ELSE ""

\* The lines of q the claim gives level l, stripped, in order.
RECURSIVE LinesAt(_, _)
LinesAt(q, l) ==
    IF q = <<>> THEN <<>>
    ELSE LET line == Strip(Head(q))
         IN  (IF line # <<>> /\ FirstLevel(line) = l THEN <<line>> ELSE <<>>)
             \o LinesAt(Tail(q), l)

Analyzed == SubSeq(log_lines, 1, lineNo - 1)

\* C9: analyze_logs gives every line that is not blank once stripped to
\* exactly one level, the first of INFO, WARNING, ERROR whose name occurs in
\* it (case-sensitively), and to no level when none occurs; blank lines are
\* neither counted nor classified.
C9_FirstMatchWins ==
    program = "day04" =>
        /\ \A l \in Range(Levels) :
              /\ log_details[l] = LinesAt(Analyzed, l)
              /\ log_counts[l] = Len(LinesAt(Analyzed, l))
        /\ total_lines = Cardinality({i \in 1..Len(Analyzed) : Strip(Analyzed[i]) # <<>>})
        /\ \A i \in 1..Len(Analyzed) :
              LET line == Strip(Analyzed[i])
                  holders == {l \in Range(Levels) : line \in Range(log_details[l])}
              IN  /\ line = <<>> => holders = {}
                  /\ line # <<>> =>
                        holders = {l \in Range(Levels) : l = FirstLevel(line)}

\* A line naming ERROR before INFO, filed under INFO.
C9_Witness ==
    /\ program = "day04" /\ lineNo > 1
    /\ Strip(log_lines[1]) = <<"ERROR", "INFO">>
    /\ log_details["INFO"] = << <<"ERROR", "INFO">> >>
    /\ log_details["ERROR"] = <<>>

LogReadFailed == appLog.state # "present" \/ appLog.lines = <<>>

SummaryWritten(f) == f \in DOMAIN files /\ Len(files[f]) = 4

\* C10 as the spec states it: a log-analyzer run whose read of the log or
\* whose write of either summary failed ends with a non-zero exit status, and
\* "Log analysis completed successfully" is printed only when both summaries
\* were written.
C10_AsStated ==
    (program = "day04" /\ pc = "returned") =>
        /\ (LogReadFailed \/ ~SummaryWritten(TEXT_OUTPUT) \/ ~SummaryWritten(JSON_OUTPUT))
                => exitStatus > 0
        /\ Printed("Log analysis completed successfully!")
                => SummaryWritten(TEXT_OUTPUT) /\ SummaryWritten(JSON_OUTPUT)

\* A line with nothing but white space in it.
IsBlank(line) == \A i \in 1..Len(line) : IsSpace(line[i])

NonBlankSeen == {i \in 1..Len(Analyzed) : ~IsBlank(Analyzed[i])}

\* d is made of lines of q in the order q has them: d[i] is line at[i] of q,
\* stripped, for some increasing at.
InInputOrder(d, q) ==
    \E at \in [1..Len(d) -> 1..Len(q)] :
        /\ \A i, j \in 1..Len(d) : i < j => at[i] < at[j]
        /\ \A i \in 1..Len(d) : d[i] = Strip(q[at[i]])

SumOfCounts == log_counts["INFO"] + log_counts["WARNING"] + log_counts["ERROR"]

\* C11: after analyze_logs has processed any prefix of its input, each level's
\* count equals the length of that level's details, the three counts sum to
\* at most total_lines, total_lines is the number of non-blank lines seen so
\* far, and each level's details are lines of the input, in input order.
C11_CountsMatchDetails ==
    program = "day04" =>
        /\ \A l \in Range(Levels) :
              /\ log_counts[l] = Len(log_details[l])
              /\ InInputOrder(log_details[l], Analyzed)
              /\ \A i \in 1..Len(log_details[l]) : Occurs(l, log_details[l][i])
        /\ SumOfCounts <= total_lines
        /\ total_lines = Cardinality(NonBlankSeen)

\* A whole input seen: a line of white space that was skipped, then a line
\* filed under ERROR.
C11_Witness ==
    /\ program = "day04" /\ lineNo = 3 /\ Len(log_lines) = 2
    /\ IsBlank(log_lines[1]) /\ log_lines[1] # <<>>
    /\ total_lines = 1 /\ SumOfCounts = 1
    /\ log_details["ERROR"] = << <<"ERROR">> >>

====
